---- MODULE Spec2Model ----
(***************************************************************************)
(* A model of python/core/executor.py: the per-asset pipeline of           *)
(* Executor._run_on_asset (result store check, path assertion, workfile    *)
(* set-up and tear-down, log file handling, result generation) and the     *)
(* batch entry points Executor.run and run_executors_in_parallel with      *)
(* their per-asset locks.                                                  *)
(*                                                                         *)
(* A path is a triple <<directory, kind, key>>.  The file system is the    *)
(* pair (fs, dirs): fs maps every existing path to its content, dirs is    *)
(* the set of existing working directories.                                *)
(***************************************************************************)
EXTENDS Integers, Sequences, FiniteSets, TLC

\* ------------------------------------------------------------------ bounds
NumAssets == 2          \* length of the asset list of a batch
MaxProcs == 2           \* worker processes active at a time in the pool

\* ------------------------------------------------------- program constants
WaitAttempts == 10      \* range(10) in _wait_for_workfiles
ENOTEMPTY == 39         \* errno tested after os.rmdir

\* --------------------------------------------------------------- the input
Dims == {<<1920, 1080>>, <<1280, 720>>}
NoDims == <<>>
ExecutorIds == {"VMAF_V1", "PSNR_V1"}
QualityKeys == {"quality_width", "quality_height"}

SrcPath(name) == <<"/media", "src", <<name>>>>

\* str(asset): the serialization of the fields that affect the output; the
\* working directory is not part of it.
Str(a) ==
    <<a.ref_path, a.dis_path, a.ref_width_height, a.dis_width_height,
      a.quality_width_height, a.crop_cmd, a.pad_cmd>>

\* The asset as the executor reads it.  asset_dict holds the keys the
\* caller gave explicitly; quality_width_height falls back to the reference
\* dimensions when it was not given.
MkAsset(ref, dis, workdir, refwh, diswh, qwh, crop, pad) ==
    [ref_path |-> SrcPath(ref),
     dis_path |-> SrcPath(dis),
     workdir |-> workdir,
     ref_width_height |-> refwh,
     dis_width_height |-> diswh,
     quality_width_height |-> IF qwh = NoDims THEN refwh ELSE qwh,
     asset_dict |-> IF qwh = NoDims THEN {} ELSE QualityKeys,
     crop_cmd |-> crop,
     pad_cmd |-> pad]

ref_workfile_path(a) == <<a.workdir, "ref", Str(a)>>
dis_workfile_path(a) == <<a.workdir, "dis", Str(a)>>

\* _get_log_file_path: workdir/executor_id_sha1(str(asset)); the digest is
\* modelled by the string it digests (no two identities of the model share
\* a digest).
LogFilePath(a, eid) == <<a.workdir, eid, Str(a)>>

\* get_dir_without_last_slash(log_file_path)
LogDir(a) == a.workdir

StrayPath(dir) == <<dir, "stray", <<>>>>

ParentDir(p) == p[1]

\* -------------------------------------------------------------- file system
SourceData == [kind |-> "file", data |-> <<"yuv">>]
StaleData == [kind |-> "file", data |-> <<"stale">>]
FifoData == [kind |-> "fifo", data |-> <<>>]
WorkData == [kind |-> "file", data |-> <<"raw">>]
StrayData == [kind |-> "file", data |-> <<"info">>]

Exists(f, p) == p \in DOMAIN f

Remove(f, p) == [q \in DOMAIN f \ {p} |-> f[q]]

Write(f, p, c) == [q \in DOMAIN f \cup {p} |-> IF q = p THEN c ELSE f[q]]

DirEmpty(f, d) == \A p \in DOMAIN f : ParentDir(p) # d

\* ------------------------------------------------------------------ results
None == [asset |-> <<>>, executor_id |-> "None", scores |-> <<>>]

\* result_store.load(asset, executor_id)
Load(st, a, eid) ==
    IF \E r \in st : r.asset = Str(a) /\ r.executor_id = eid
    THEN CHOOSE r \in st : r.asset = Str(a) /\ r.executor_id = eid
    ELSE None

\* result_store.save(result): one entry per (asset, executor_id)
Save(st, r) ==
    {q \in st : ~(q.asset = r.asset /\ q.executor_id = r.executor_id)} \cup {r}

\* the result store is never asked
LoadedResultNever(rs, st, a, eid) == None

\* lines 203-206: the result store is asked only when there is one
LoadedResult(rs, st, a, eid) == IF rs THEN Load(st, a, eid) ELSE None

\* a retrieved result does not skip the run
AfterLoadAlwaysRun(r) == "assert_paths"

\* lines 211-224: a retrieved result skips the run
AfterLoad(r) == IF r # None THEN "post_process" ELSE "assert_paths"

\* TYPE_VERSION of an executor class that overrides _post_process_result
ShapedId == "SHAPED_V1"

\* _post_process_result: the base class returns the result as it is; the
\* class ShapedId overrides the hook and adds to the scores
PostProcessResult(r) ==
    IF r.executor_id = ShapedId
    THEN [r EXCEPT !.scores = Append(@, "shaped")]
    ELSE r

\* the Result is saved after the hook was applied to it
SavedStoreShaped(rs, st, r) == IF rs THEN Save(st, PostProcessResult(r)) ELSE st

\* the save is left out
SavedStoreDropped(rs, st, r) == st

\* lines 279-280: if self.result_store: self.result_store.save(result)
SavedStore(rs, st, r) == IF rs THEN Save(st, r) ELSE st

\* _read_result: the Result parsed from the log file of (asset, executor_id)
ParseLog(a, eid, content) ==
    [asset |-> Str(a), executor_id |-> eid, scores |-> content.data]

\* the log file right after _prepare_log_file: type_version line, blank line
LogHeader(eid) == [kind |-> "file", data |-> <<eid, "">>]

\* what _generate_result appends to the log file
Appended(content) == [content EXCEPT !.data = Append(@, "scores")]

\* a Result some earlier run left in the result store
Stored(a, eid) == ParseLog(a, eid, Appended(LogHeader(eid)))

\* the log file opened for appending: what the path held is kept
PreparedLogAppended(f, log, eid) ==
    Write(f, log, [kind |-> "file",
                   data |-> (IF Exists(f, log) THEN f[log].data ELSE <<>>)
                            \o LogHeader(eid).data])

\* _prepare_log_file, lines 188-190: open(log_file_path, 'wt') truncates
\* what the path held, then the type_version line and a blank line
PreparedLog(f, log, eid) == Write(f, log, LogHeader(eid))

\* ------------------------------------------------------ checks on the asset
\* only pad_cmd is checked
AssertAnAssetPadOnly(a) ==
    a.pad_cmd # "None" => QualityKeys \subseteq a.asset_dict

\* _assert_an_asset (ffmpeg is taken to be installed, so the call of
\* get_and_assert_ffmpeg for rescaled assets passes)
AssertAnAsset(a) ==
    /\ (a.crop_cmd # "None" => QualityKeys \subseteq a.asset_dict)
    /\ (a.pad_cmd # "None" => QualityKeys \subseteq a.asset_dict)

\* _assert_assets
RECURSIVE AssertAssets(_)
AssertAssets(as) ==
    IF as = <<>> THEN TRUE
    ELSE AssertAnAsset(Head(as)) /\ AssertAssets(Tail(as))

\* the crop test inverted
NoRescalingInverted(a) ==
    /\ a.quality_width_height = a.ref_width_height
    /\ a.quality_width_height = a.dis_width_height
    /\ a.crop_cmd # "None"
    /\ a.pad_cmd = "None"

\* pad_cmd is not looked at
NoRescalingIgnoresPad(a) ==
    /\ a.quality_width_height = a.ref_width_height
    /\ a.quality_width_height = a.dis_width_height
    /\ a.crop_cmd = "None"

\* the condition of _set_asset_use_path_as_workpath
NoRescaling(a) ==
    /\ a.quality_width_height = a.ref_width_height
    /\ a.quality_width_height = a.dis_width_height
    /\ a.crop_cmd = "None"
    /\ a.pad_cmd = "None"

\* _assert_paths
AssertPaths(f, a) ==
    /\ Exists(f, a.ref_path)
    /\ Exists(f, a.ref_path)

\* --------------------------------------------------------------- lock table
\* One pass of "for asset in assets": acc.map is map_asset_lock, acc.locks
\* the list locks; a new multiprocessing.Lock() is a fresh handle, named by
\* the index of the asset it is created for.
NewLock(acc, s) ==
    [acc EXCEPT !.map = [t \in DOMAIN acc.map \cup {s} |->
                           IF t = s THEN Len(acc.locks) + 1
                           ELSE acc.map[t]]]

\* a new lock for every asset of the list
LockOfAlwaysNew(acc, s) == NewLock(acc, s)

\* every asset string mapped to the first lock
LockOfShared(acc, s) ==
    IF s \in DOMAIN acc.map THEN acc
    ELSE [acc EXCEPT !.map = [t \in DOMAIN acc.map \cup {s} |-> 1]]

LockOf(acc, s) ==
    IF s \in DOMAIN acc.map THEN acc ELSE NewLock(acc, s)

RECURSIVE CreateLocks(_, _)
CreateLocks(as, acc) ==
    IF as = <<>> THEN acc
    ELSE LET s == Str(Head(as))
             m == LockOf(acc, s)
         IN CreateLocks(Tail(as),
                        [m EXCEPT !.locks = Append(@, m.map[s])])

EmptyLockTable == [map |-> <<>>, locks |-> <<>>]

\* _close_ref_workfile / _close_dis_workfile: the assertion, then the removal
CloseRefAssert(use, a) == use = FALSE /\ a.ref_path # ref_workfile_path(a)

CloseDisAssert(use, a) == use = FALSE /\ a.dis_path # dis_workfile_path(a)

\* the source path removed in place of the workfile path
CloseRefWorkfileOfSource(f, a) ==
    IF Exists(f, ref_workfile_path(a)) THEN Remove(f, a.ref_path)
    ELSE f

CloseRefWorkfile(f, a) ==
    IF Exists(f, ref_workfile_path(a)) THEN Remove(f, ref_workfile_path(a))
    ELSE f

\* the distorted workfile is left in place
CloseDisWorkfileKept(f, a) == f

CloseDisWorkfile(f, a) ==
    IF Exists(f, dis_workfile_path(a)) THEN Remove(f, dis_workfile_path(a))
    ELSE f

\* _open_ref_workfile / _open_dis_workfile with fifo_mode=False: ffmpeg
\* writes the workfile (-y overwrites); its exit status is not looked at, so
\* a missing source or working directory leaves no file and no error.
OpenRefWorkfile(f, ds, a) ==
    IF a.workdir \in ds /\ Exists(f, a.ref_path)
    THEN Write(f, ref_workfile_path(a), WorkData) ELSE f

OpenDisWorkfile(f, ds, a) ==
    IF a.workdir \in ds /\ Exists(f, a.dis_path)
    THEN Write(f, dis_workfile_path(a), WorkData) ELSE f

\* errno of os.rmdir(d): 0 when the directory was removed, 2 (no such
\* directory) when it is missing
RmdirErrno(f, ds, d) ==
    IF d \notin ds THEN 2
    ELSE IF ~DirEmpty(f, d) THEN ENOTEMPTY
    ELSE 0

\* parallel_map / map: the values the jobs returned, listed by the index the
\* job was submitted with
ParallelMap(ret, n) == [i \in 1..n |-> ret[i]]

\* the executor run_executor returns: its results list holds one Result
ExecutorOf(r) == [results |-> <<r>>]

\* the executors taken in reverse
AggregateResultsReversed(executors) ==
    [i \in 1..Len(executors) |->
        executors[Len(executors) + 1 - i].results[1]]

\* results = [executor.results[0] for executor in executors]
AggregateResults(executors) ==
    [i \in 1..Len(executors) |-> executors[i].results[1]]

DirPath(d) == <<d, "dir", <<>>>>

\* the loop is left without the else clause: no RuntimeError
WaitNextFallsThrough(found, n) ==
    IF found THEN "waited"
    ELSE IF n < WaitAttempts THEN "wait" ELSE "waited"

\* _wait_for_workfiles, lines 168-178: where the n-th existence check
\* leads: out of the loop when both workfile paths exist, to the next check
\* after sleep(0.1), or to the else clause of the loop after the last one
WaitNext(found, n) ==
    IF found THEN "waited"
    ELSE IF n < WaitAttempts THEN "wait" ELSE "RuntimeError"

\* only ref_p is started
StartedRefOnly == [ref |-> "started", dis |-> "none"]

\* lines 247-252: ref_p.start(); dis_p.start()
StartedProducers == [ref |-> "started", dis |-> "started"]

\* ------------------------------------------------------------------- state
VARIABLES
    assets,                \* the asset list of the batch
    entry,                 \* "run_executors_in_parallel" or "Executor.run"
    parallelize,           \* the parallelize argument
    fifo_mode,             \* Executor.fifo_mode
    delete_workdir,        \* Executor.delete_workdir
    result_store,          \* TRUE when a result store was given
    store,                 \* the Results the result store holds
    executor_id,           \* Executor.executor_id
    batch_pc,              \* position of the batch entry point
    map_asset_lock,        \* str(asset) -> lock
    locks,                 \* the lock of every asset, by index
    held,                  \* lock -> index of the job holding it
    pc,                    \* position of every job
    error,                 \* the exception that ended a job, or "None"
    result,                \* the local result of every job
    use_path_as_workpath,  \* asset.use_path_as_workpath
    fs,                    \* existing files: path -> content
    dirs,                  \* existing working directories
    procs,                 \* ref_p / dis_p of every job
    attempts,              \* existence checks made by _wait_for_workfiles
    generate_calls,        \* calls of _generate_result, by job
    read_calls,            \* calls of _read_result, by job
    ops,                   \* what every job did: set of <<operation, path>>
    completion,            \* job indices in the order the jobs returned
    results,               \* the result list the batch returned
    initial                \* the file system and result store before the run

vars == <<assets, entry, parallelize, fifo_mode, delete_workdir, result_store,
          store, executor_id, batch_pc, map_asset_lock, locks, held, pc,
          error, result, use_path_as_workpath, fs, dirs, procs, attempts,
          generate_calls, read_calls, ops, completion, results, initial>>

config == <<assets, entry, parallelize, fifo_mode, delete_workdir,
            result_store, executor_id, initial>>

Jobs == 1..Len(assets)

HD == <<1920, 1080>>
SD == <<1280, 720>>

\* ----------------------------------------------------------- initial states
Sources(as) == UNION {{as[i].ref_path, as[i].dis_path} : i \in 1..Len(as)}

WorkDirs(as) == {as[i].workdir : i \in 1..Len(as)}

Leftovers(as, eid) ==
    UNION {{ref_workfile_path(as[i]), dis_workfile_path(as[i]),
            LogFilePath(as[i], eid)} : i \in 1..Len(as)}

\* The file system before the run: the sources that are not missing; when
\* stale, what an interrupted earlier run left; when stray, a foreign file in
\* every working directory.
InitialFs(as, eid, missing, stale, stray) ==
    LET src == Sources(as) \ missing
        old == IF stale THEN Leftovers(as, eid) ELSE {}
        oth == IF stray THEN {StrayPath(d) : d \in WorkDirs(as)} ELSE {}
    IN [p \in src \cup old \cup oth |->
          IF p \in src THEN SourceData
          ELSE IF p \in old THEN StaleData ELSE StrayData]

InitialDirs(as, stale, stray) == IF stale \/ stray THEN WorkDirs(as) ELSE {}

OtherId(eid) == CHOOSE e \in ExecutorIds : e # eid

\* What the result store holds before the run: nothing, the Result of every
\* asset, the Result of the first asset only, or Results of another executor.
InitialStores(as, eid) ==
    {{},
     {Stored(as[i], eid) : i \in 1..Len(as)},
     {Stored(as[1], eid)},
     {Stored(as[i], OtherId(eid)) : i \in 1..Len(as)}}

InitWith(as, e, par, fifo, del, rs, st, eid, missing, stale, stray) ==
    /\ assets = as
    /\ entry = e
    /\ parallelize = par
    /\ fifo_mode = fifo
    /\ delete_workdir = del
    /\ result_store = rs
    /\ store = st
    /\ executor_id = eid
    /\ batch_pc = "init"
    /\ map_asset_lock = <<>>
    /\ locks = <<>>
    /\ held = <<>>
    /\ pc = [j \in 1..Len(as) |-> "queued"]
    /\ error = [j \in 1..Len(as) |-> "None"]
    /\ result = [j \in 1..Len(as) |-> None]
    /\ use_path_as_workpath = [j \in 1..Len(as) |-> FALSE]
    /\ fs = InitialFs(as, eid, missing, stale, stray)
    /\ dirs = InitialDirs(as, stale, stray)
    /\ procs = [j \in 1..Len(as) |-> [ref |-> "none", dis |-> "none"]]
    /\ attempts = [j \in 1..Len(as) |-> 0]
    /\ generate_calls = [j \in 1..Len(as) |-> 0]
    /\ read_calls = [j \in 1..Len(as) |-> 0]
    /\ ops = [j \in 1..Len(as) |-> {}]
    /\ completion = <<>>
    /\ results = <<>>
    /\ initial = [fs |-> InitialFs(as, eid, missing, stale, stray),
                  dirs |-> InitialDirs(as, stale, stray),
                  store |-> st]

\* the assets of a batch: a rescaled asset, the same asset under another
\* working directory, an asset that needs no workfile, and an asset with
\* crop_cmd but no explicit quality_width / quality_height
Scaled1 == MkAsset("ref1", "dis1", "/work1", HD, HD, SD, "None", "None")
Scaled1b == MkAsset("ref1", "dis1", "/work2", HD, HD, SD, "None", "None")
Plain2 == MkAsset("ref2", "dis2", "/work1", HD, HD, NoDims, "None", "None")
BadCrop == MkAsset("ref2", "dis2", "/work1", HD, HD, NoDims, "crop", "None")

Catalog == {Scaled1, Scaled1b, Plain2, BadCrop}

\* the asset lists of a batch: one asset x among copies of an asset y
Batches ==
    {[i \in 1..NumAssets |-> IF i = k THEN x ELSE y] :
        x \in Catalog, y \in Catalog, k \in 1..NumAssets}

Entries == {"run_executors_in_parallel", "Executor.run"}

\* a batch with a result store that is empty before the run
Init ==
    \E as \in Batches, e \in Entries, par, fifo, del \in BOOLEAN,
       missing \in {{}, {SrcPath("ref1")}} :
        InitWith(as, e, par, fifo, del, TRUE, {}, "VMAF_V1", missing,
                 FALSE, FALSE)

\* one asset, every combination of its fields and of the file system
AllAssets ==
    {MkAsset("ref1", "dis1", "/work1", r, d, q, c, p) :
        r \in Dims, d \in Dims, q \in Dims \cup {NoDims},
        c \in {"None", "crop"}, p \in {"None", "pad"}}

InitJob ==
    \E a \in AllAssets, fifo, del, rs, stale, stray \in BOOLEAN,
       eid \in ExecutorIds,
       missing \in SUBSET {SrcPath("ref1"), SrcPath("dis1")} :
      \E st \in (IF rs THEN InitialStores(<<a>>, eid) ELSE {{}}) :
        InitWith(<<a>>, "run_executors_in_parallel", FALSE, fifo, del, rs, st,
                 eid, missing, stale, stray)

\* ------------------------------------------------------------ batch actions
UsesLocks == entry = "run_executors_in_parallel" \/ parallelize

Active(k) == pc[k] \notin {"queued", "returned", "error"}

Raise(j, e) ==
    /\ pc' = [pc EXCEPT ![j] = "error"]
    /\ error' = [error EXCEPT ![j] = e]

Goto(j, l) ==
    /\ pc' = [pc EXCEPT ![j] = l]
    /\ UNCHANGED error

Did(j, new) == ops' = [ops EXCEPT ![j] = @ \cup new]

\* Executor.__init__ -> _assert_assets, for the whole asset list: the
\* executor that run_executors_in_parallel constructs first, or the one whose
\* run method is called.
Construct ==
    /\ batch_pc = "init"
    /\ batch_pc' = IF ~AssertAssets(assets) THEN "config_error"
                   ELSE IF UsesLocks THEN "create_locks"
                   ELSE "running"
    /\ UNCHANGED <<config, store, map_asset_lock, locks, held, pc, error,
                   result, use_path_as_workpath, fs, dirs, procs, attempts,
                   generate_calls, read_calls, ops, completion, results>>

\* create locks for unique assets
CreateLockTable ==
    /\ batch_pc = "create_locks"
    /\ LET t == CreateLocks(assets, EmptyLockTable)
       IN /\ map_asset_lock' = t.map
          /\ locks' = t.locks
          /\ held' = [l \in 1..Len(assets) |-> 0]
    /\ batch_pc' = "running"
    /\ UNCHANGED <<config, store, pc, error, result, use_path_as_workpath,
                   fs, dirs, procs, attempts, generate_calls, read_calls,
                   ops, completion, results>>

\* parallel_map starts the workers in the order of the list, one while fewer
\* than MaxProcs are active; map starts a job when the one before it has
\* returned.
StartJob(j) ==
    /\ batch_pc = "running"
    /\ pc[j] = "queued"
    /\ \A k \in 1..(j - 1) : pc[k] # "queued"
    /\ IF parallelize
       THEN Cardinality({k \in Jobs : Active(k)}) < MaxProcs
       ELSE \A k \in 1..(j - 1) : pc[k] = "returned"
    /\ Goto(j, IF UsesLocks THEN "acquire" ELSE "load")
    /\ UNCHANGED <<config, store, batch_pc, map_asset_lock, locks, held,
                   result, use_path_as_workpath, fs, dirs, procs, attempts,
                   generate_calls, read_calls, ops, completion, results>>

\* lock.acquire()
Acquire(j) ==
    /\ pc[j] = "acquire"
    /\ held[locks[j]] = 0
    /\ held' = [held EXCEPT ![locks[j]] = j]
    /\ Goto(j, IF entry = "run_executors_in_parallel" THEN "construct"
               ELSE "load")
    /\ UNCHANGED <<config, store, batch_pc, map_asset_lock, locks, result,
                   use_path_as_workpath, fs, dirs, procs, attempts,
                   generate_calls, read_calls, ops, completion, results>>

\* run_executor: executor = executor_class([asset], ...); executor.run()
ConstructExecutor(j) ==
    /\ pc[j] = "construct"
    /\ IF AssertAssets(<<assets[j]>>) THEN Goto(j, "load")
       ELSE Raise(j, "AssertionError")
    /\ UNCHANGED <<config, store, batch_pc, map_asset_lock, locks, held,
                   result, use_path_as_workpath, fs, dirs, procs, attempts,
                   generate_calls, read_calls, ops, completion, results>>

\* lock.release() and the return of the job
Release(j) ==
    /\ pc[j] = "release"
    /\ held' = [held EXCEPT ![locks[j]] = 0]
    /\ Goto(j, "returned")
    /\ completion' = Append(completion, j)
    /\ UNCHANGED <<config, store, batch_pc, map_asset_lock, locks, result,
                   use_path_as_workpath, fs, dirs, procs, attempts,
                   generate_calls, read_calls, ops, results>>

\* the batch returns its result list once every job has returned
Aggregate ==
    /\ batch_pc = "running"
    /\ \A j \in Jobs : pc[j] = "returned"
    /\ results' =
         IF entry = "run_executors_in_parallel"
         THEN AggregateResults(
                  ParallelMap([j \in Jobs |-> ExecutorOf(result[j])],
                              Len(assets)))
         ELSE ParallelMap(result, Len(assets))
    /\ batch_pc' = "done"
    /\ UNCHANGED <<config, store, map_asset_lock, locks, held, pc, error,
                   result, use_path_as_workpath, fs, dirs, procs, attempts,
                   generate_calls, read_calls, ops, completion>>

\* An exception of a job ends a sequential batch at once; the pool fails
\* when it collects the values and one is missing.
Abort ==
    /\ batch_pc = "running"
    /\ \E j \in Jobs : pc[j] = "error"
    /\ parallelize => \A j \in Jobs : pc[j] \in {"returned", "error"}
    /\ batch_pc' = "error"
    /\ UNCHANGED <<config, store, map_asset_lock, locks, held, pc, error,
                   result, use_path_as_workpath, fs, dirs, procs, attempts,
                   generate_calls, read_calls, ops, completion, results>>

\* ----------------------------------------------------- the per-asset job
\* _run_on_asset: result = self.result_store.load(asset, self.executor_id)
LoadResult(j) ==
    /\ pc[j] = "load"
    /\ LET r == LoadedResult(result_store, store, assets[j], executor_id)
       IN /\ result' = [result EXCEPT ![j] = r]
          /\ Goto(j, AfterLoad(r))
    /\ UNCHANGED <<config, store, batch_pc, map_asset_lock, locks, held,
                   use_path_as_workpath, fs, dirs, procs, attempts,
                   generate_calls, read_calls, ops, completion, results>>

\* self._assert_paths(asset)
CheckPaths(j) ==
    /\ pc[j] = "assert_paths"
    /\ IF AssertPaths(fs, assets[j]) THEN Goto(j, "set_use_path")
       ELSE Raise(j, "AssertionError")
    /\ Did(j, {<<"assert_paths", assets[j].ref_path>>})
    /\ UNCHANGED <<config, store, batch_pc, map_asset_lock, locks, held,
                   result, use_path_as_workpath, fs, dirs, procs, attempts,
                   generate_calls, read_calls, completion, results>>

\* self._set_asset_use_path_as_workpath(asset)
SetUsePathAsWorkpath(j) ==
    /\ pc[j] = "set_use_path"
    /\ use_path_as_workpath' =
         [use_path_as_workpath EXCEPT
            ![j] = IF NoRescaling(assets[j]) THEN TRUE ELSE @]
    /\ Goto(j, "remove_workfiles")
    /\ UNCHANGED <<config, store, batch_pc, map_asset_lock, locks, held,
                   result, fs, dirs, procs, attempts, generate_calls,
                   read_calls, ops, completion, results>>

\* The two calls _close_ref_workfile(asset); _close_dis_workfile(asset):
\* the file system after them, whether an assertion stopped them, and the
\* paths they removed.
CloseWorkfilesOf(f, use, a) ==
    IF ~CloseRefAssert(use, a) THEN [fs |-> f, ok |-> FALSE, removed |-> {}]
    ELSE LET f1 == CloseRefWorkfile(f, a)
         IN IF ~CloseDisAssert(use, a)
            THEN [fs |-> f1, ok |-> FALSE,
                  removed |-> DOMAIN f \ DOMAIN f1]
            ELSE LET f2 == CloseDisWorkfile(f1, a)
                 IN [fs |-> f2, ok |-> TRUE,
                     removed |-> DOMAIN f \ DOMAIN f2]

\* remove workfiles if exist (lines 232-237)
RemoveStaleWorkfiles(j) ==
    /\ pc[j] = "remove_workfiles"
    /\ IF use_path_as_workpath[j]
       THEN /\ Goto(j, "make_dirs")
            /\ UNCHANGED <<fs, ops>>
       ELSE LET c == CloseWorkfilesOf(fs, use_path_as_workpath[j], assets[j])
            IN /\ fs' = c.fs
               /\ Did(j, {<<"remove", p>> : p \in c.removed})
               /\ IF c.ok THEN Goto(j, "make_dirs")
                  ELSE Raise(j, "AssertionError")
    /\ UNCHANGED <<config, store, batch_pc, map_asset_lock, locks, held,
                   result, use_path_as_workpath, dirs, procs, attempts,
                   generate_calls, read_calls, completion, results>>

\* make_parent_dirs_if_nonexist(log_file_path) (lines 239-240)
MakeParentDirs(j) ==
    /\ pc[j] = "make_dirs"
    /\ dirs' = dirs \cup {LogDir(assets[j])}
    /\ Did(j, {<<"makedirs", DirPath(d)>> : d \in {LogDir(assets[j])} \ dirs})
    /\ Goto(j, "open_workfiles")
    /\ UNCHANGED <<config, store, batch_pc, map_asset_lock, locks, held,
                   result, use_path_as_workpath, fs, procs, attempts,
                   generate_calls, read_calls, completion, results>>

\* lines 242-256: nothing for a source used as workfile; in fifo mode start
\* ref_p and dis_p; otherwise open both workfiles in turn.
OpenWorkfiles(j) ==
    /\ pc[j] = "open_workfiles"
    /\ LET a == assets[j]
       IN IF use_path_as_workpath[j]
          THEN /\ Goto(j, "prepare_log")
               /\ UNCHANGED <<fs, procs, ops>>
          ELSE IF fifo_mode
          THEN /\ procs' = [procs EXCEPT ![j] = StartedProducers]
               /\ Did(j, {<<"start", ref_workfile_path(a)>>,
                          <<"start", dis_workfile_path(a)>>})
               /\ Goto(j, "wait")
               /\ UNCHANGED fs
          ELSE IF ~CloseRefAssert(use_path_as_workpath[j], a)
          THEN /\ Raise(j, "AssertionError")
               /\ UNCHANGED <<fs, procs, ops>>
          ELSE IF ~CloseDisAssert(use_path_as_workpath[j], a)
          THEN /\ fs' = OpenRefWorkfile(fs, dirs, a)
               /\ Did(j, {<<"transcode", ref_workfile_path(a)>>})
               /\ Raise(j, "AssertionError")
               /\ UNCHANGED procs
          ELSE /\ fs' = OpenDisWorkfile(OpenRefWorkfile(fs, dirs, a), dirs, a)
               /\ Did(j, {<<"transcode", ref_workfile_path(a)>>,
                          <<"transcode", dis_workfile_path(a)>>})
               /\ Goto(j, "prepare_log")
               /\ UNCHANGED procs
    /\ UNCHANGED <<config, store, batch_pc, map_asset_lock, locks, held,
                   result, use_path_as_workpath, dirs, attempts,
                   generate_calls, read_calls, completion, results>>

WorkfilePath(a, side) ==
    IF side = "ref" THEN ref_workfile_path(a) ELSE dis_workfile_path(a)

SourcePath(a, side) == IF side = "ref" THEN a.ref_path ELSE a.dis_path

Sides == {"ref", "dis"}

\* ref_p / dis_p: _open_ref_workfile(asset, True) up to os.mkfifo; ffmpeg
\* then blocks opening the pipe until a reader attaches, or exits at once
\* when its source is missing.
ProducerMkfifo(j, side) ==
    /\ procs[j][side] = "started"
    /\ LET p == WorkfilePath(assets[j], side)
       IN IF Exists(fs, p) \/ ParentDir(p) \notin dirs
          THEN /\ procs' = [procs EXCEPT ![j][side] = "failed"]
               /\ UNCHANGED <<fs, ops>>
          ELSE /\ procs' = [procs EXCEPT ![j][side] =
                               IF Exists(fs, SourcePath(assets[j], side))
                               THEN "blocked" ELSE "failed"]
               /\ fs' = Write(fs, p, FifoData)
               /\ Did(j, {<<"mkfifo", p>>})
    /\ UNCHANGED <<config, store, batch_pc, map_asset_lock, locks, held, pc,
                   error, result, use_path_as_workpath, dirs, attempts,
                   generate_calls, read_calls, completion, results>>

OtherSide(side) == IF side = "ref" THEN "dis" ELSE "ref"

\* ffmpeg streams into the pipe while _generate_result reads it, then exits.
\* _generate_result reads both pipes side by side, so one pipe is read to
\* its end only when the other pipe has its writer too.
ProducerStream(j, side) ==
    /\ procs[j][side] = "blocked"
    /\ procs[j][OtherSide(side)] \in {"blocked", "done"}
    /\ pc[j] = "generating"
    /\ procs' = [procs EXCEPT ![j][side] = "done"]
    /\ UNCHANGED <<config, store, batch_pc, map_asset_lock, locks, held, pc,
                   error, result, use_path_as_workpath, fs, dirs, attempts,
                   generate_calls, read_calls, ops, completion, results>>

\* one iteration of the loop of _wait_for_workfiles
WaitForWorkfiles(j) ==
    /\ pc[j] = "wait"
    /\ attempts[j] < WaitAttempts
    /\ attempts' = [attempts EXCEPT ![j] = @ + 1]
    /\ LET found == /\ Exists(fs, ref_workfile_path(assets[j]))
                    /\ Exists(fs, dis_workfile_path(assets[j]))
           next == WaitNext(found, attempts[j] + 1)
       IN IF next = "RuntimeError" THEN Raise(j, "RuntimeError")
          ELSE Goto(j, next)
    /\ UNCHANGED <<config, store, batch_pc, map_asset_lock, locks, held,
                   result, use_path_as_workpath, fs, dirs, procs,
                   generate_calls, read_calls, ops, completion, results>>

\* self._prepare_log_file(asset); the loop variable of the wait is dead
PrepareLogFile(j) ==
    /\ pc[j] \in {"prepare_log", "waited"}
    /\ attempts' = [attempts EXCEPT ![j] = 0]
    /\ LET a == assets[j]
           log == LogFilePath(a, executor_id)
       IN /\ dirs' = dirs \cup {LogDir(a)}
          /\ fs' = PreparedLog(fs, log, executor_id)
          /\ Did(j, {<<"makedirs", DirPath(d)>> : d \in {LogDir(a)} \ dirs}
                    \cup {<<"write_log", log>>})
    /\ Goto(j, "generate")
    /\ UNCHANGED <<config, store, batch_pc, map_asset_lock, locks, held,
                   result, use_path_as_workpath, procs,
                   generate_calls, read_calls, completion, results>>

\* self._generate_result(asset) is called
GenerateResult(j) ==
    /\ pc[j] = "generate"
    /\ generate_calls' = [generate_calls EXCEPT ![j] = @ + 1]
    /\ Goto(j, "generating")
    /\ UNCHANGED <<config, store, batch_pc, map_asset_lock, locks, held,
                   result, use_path_as_workpath, fs, dirs, procs, attempts,
                   read_calls, ops, completion, results>>

ReadsPipes(j) == fifo_mode /\ ~use_path_as_workpath[j]

\* _generate_result returns: it has read its inputs (both pipes to their
\* end in fifo mode) and appended to the log file.
GenerateReturn(j) ==
    /\ pc[j] = "generating"
    /\ ReadsPipes(j) => procs[j].ref = "done" /\ procs[j].dis = "done"
    /\ LET log == LogFilePath(assets[j], executor_id)
       IN fs' = IF Exists(fs, log) THEN Write(fs, log, Appended(fs[log]))
                ELSE fs
    /\ Goto(j, "close_workfiles")
    /\ UNCHANGED <<config, store, batch_pc, map_asset_lock, locks, held,
                   result, use_path_as_workpath, dirs, procs, attempts,
                   generate_calls, read_calls, ops, completion, results>>

\* _generate_result raises
GenerateRaise(j) ==
    /\ pc[j] = "generating"
    /\ Raise(j, "GenerateError")
    /\ UNCHANGED <<config, store, batch_pc, map_asset_lock, locks, held,
                   result, use_path_as_workpath, fs, dirs, procs, attempts,
                   generate_calls, read_calls, ops, completion, results>>

\* clean up workfiles (lines 263-269)
CloseWorkfiles(j) ==
    /\ pc[j] = "close_workfiles"
    /\ IF delete_workdir /\ ~use_path_as_workpath[j]
       THEN LET c == CloseWorkfilesOf(fs, use_path_as_workpath[j], assets[j])
            IN /\ fs' = c.fs
               /\ Did(j, {<<"remove", p>> : p \in c.removed})
               /\ IF c.ok THEN Goto(j, "read_result")
                  ELSE Raise(j, "AssertionError")
       ELSE /\ Goto(j, "read_result")
            /\ UNCHANGED <<fs, ops>>
    /\ UNCHANGED <<config, store, batch_pc, map_asset_lock, locks, held,
                   result, use_path_as_workpath, dirs, procs, attempts,
                   generate_calls, read_calls, completion, results>>

\* result = self._read_result(asset)
ReadResult(j) ==
    /\ pc[j] = "read_result"
    /\ read_calls' = [read_calls EXCEPT ![j] = @ + 1]
    /\ LET log == LogFilePath(assets[j], executor_id)
       IN IF Exists(fs, log)
          THEN /\ result' = [result EXCEPT ![j] =
                               ParseLog(assets[j], executor_id, fs[log])]
               /\ Goto(j, "save_result")
          ELSE /\ Raise(j, "IOError")
               /\ UNCHANGED result
    /\ UNCHANGED <<config, store, batch_pc, map_asset_lock, locks, held,
                   use_path_as_workpath, fs, dirs, procs, attempts,
                   generate_calls, ops, completion, results>>

\* if self.result_store: self.result_store.save(result)
SaveResult(j) ==
    /\ pc[j] = "save_result"
    /\ store' = SavedStore(result_store, store, result[j])
    /\ IF result_store
       THEN Did(j, {<<"save", LogFilePath(assets[j], executor_id)>>})
       ELSE UNCHANGED ops
    /\ Goto(j, IF delete_workdir THEN "remove_log" ELSE "post_process")
    /\ UNCHANGED <<config, batch_pc, map_asset_lock, locks, held, result,
                   use_path_as_workpath, fs, dirs, procs, attempts,
                   generate_calls, read_calls, completion, results>>

\* self._remove_log(asset)
RemoveLog(j) ==
    /\ pc[j] = "remove_log"
    /\ LET log == LogFilePath(assets[j], executor_id)
       IN IF Exists(fs, log)
          THEN /\ fs' = Remove(fs, log)
               /\ Did(j, {<<"remove", log>>})
          ELSE UNCHANGED <<fs, ops>>
    /\ Goto(j, "rmdir")
    /\ UNCHANGED <<config, store, batch_pc, map_asset_lock, locks, held,
                   result, use_path_as_workpath, dirs, procs, attempts,
                   generate_calls, read_calls, completion, results>>

\* try: os.rmdir(log_dir) / except OSError as e: if e.errno == 39: pass.
\* The handler ends without raising for every errno.
RemoveLogDir(j) ==
    /\ pc[j] = "rmdir"
    /\ LET d == LogDir(assets[j])
           e == RmdirErrno(fs, dirs, d)
       IN IF e = 0
          THEN /\ dirs' = dirs \ {d}
               /\ Did(j, {<<"rmdir", DirPath(d)>>})
               /\ Goto(j, "post_process")
          ELSE IF e = ENOTEMPTY
          THEN /\ Goto(j, "post_process")
               /\ UNCHANGED <<dirs, ops>>
          ELSE /\ Goto(j, "post_process")
               /\ UNCHANGED <<dirs, ops>>
    /\ UNCHANGED <<config, store, batch_pc, map_asset_lock, locks, held,
                   result, use_path_as_workpath, fs, procs, attempts,
                   generate_calls, read_calls, completion, results>>

\* result = self._post_process_result(result); return result
PostProcess(j) ==
    /\ pc[j] = "post_process"
    /\ result' = [result EXCEPT ![j] = PostProcessResult(@)]
    /\ Goto(j, IF UsesLocks THEN "release" ELSE "returned")
    /\ completion' = IF UsesLocks THEN completion ELSE Append(completion, j)
    /\ UNCHANGED <<config, store, batch_pc, map_asset_lock, locks, held,
                   use_path_as_workpath, fs, dirs, procs, attempts,
                   generate_calls, read_calls, ops, results>>

\* ----------------------------------------------------------- specification
Next ==
    \/ Construct
    \/ CreateLockTable
    \/ \E j \in Jobs : StartJob(j)
    \/ \E j \in Jobs : Acquire(j)
    \/ \E j \in Jobs : ConstructExecutor(j)
    \/ \E j \in Jobs : LoadResult(j)
    \/ \E j \in Jobs : CheckPaths(j)
    \/ \E j \in Jobs : SetUsePathAsWorkpath(j)
    \/ \E j \in Jobs : RemoveStaleWorkfiles(j)
    \/ \E j \in Jobs : MakeParentDirs(j)
    \/ \E j \in Jobs : OpenWorkfiles(j)
    \/ \E j \in Jobs : WaitForWorkfiles(j)
    \/ \E j \in Jobs : PrepareLogFile(j)
    \/ \E j \in Jobs : GenerateResult(j)
    \/ \E j \in Jobs : GenerateReturn(j)
    \/ \E j \in Jobs : GenerateRaise(j)
    \/ \E j \in Jobs : CloseWorkfiles(j)
    \/ \E j \in Jobs : ReadResult(j)
    \/ \E j \in Jobs : SaveResult(j)
    \/ \E j \in Jobs : RemoveLog(j)
    \/ \E j \in Jobs : RemoveLogDir(j)
    \/ \E j \in Jobs : PostProcess(j)
    \/ \E j \in Jobs : Release(j)
    \/ \E j \in Jobs, side \in Sides : ProducerMkfifo(j, side)
    \/ \E j \in Jobs, side \in Sides : ProducerStream(j, side)
    \/ Aggregate
    \/ Abort

\* two runs of the job on one asset, one after the other
InitTwice ==
    \E a \in Catalog, fifo, del, rs, stale \in BOOLEAN, eid \in ExecutorIds,
       missing \in {{}, {SrcPath("dis1")}} :
      \E st \in (IF rs THEN InitialStores(<<a, a>>, eid) ELSE {{}}) :
        InitWith(<<a, a>>, "run_executors_in_parallel", FALSE, fifo, del, rs,
                 st, eid, missing, stale, FALSE)

\* the steps of the process that runs job j, but for an exception raised by
\* _generate_result
JobStep(j) ==
    \/ Acquire(j) \/ ConstructExecutor(j) \/ LoadResult(j) \/ CheckPaths(j)
    \/ SetUsePathAsWorkpath(j) \/ RemoveStaleWorkfiles(j)
    \/ MakeParentDirs(j) \/ OpenWorkfiles(j) \/ WaitForWorkfiles(j)
    \/ PrepareLogFile(j) \/ GenerateResult(j) \/ GenerateReturn(j)
    \/ CloseWorkfiles(j) \/ ReadResult(j) \/ SaveResult(j) \/ RemoveLog(j)
    \/ RemoveLogDir(j) \/ PostProcess(j) \/ Release(j)

BatchStep ==
    \/ Construct \/ CreateLockTable \/ Aggregate \/ Abort
    \/ \E j \in Jobs : StartJob(j)

\* Every process that can take a step takes one in the end: the process of
\* the batch, the process of every job, and ref_p and dis_p of every job.
Fairness ==
    /\ WF_vars(BatchStep)
    /\ \A j \in 1..NumAssets : WF_vars(j \in Jobs /\ JobStep(j))
    /\ \A j \in 1..NumAssets : \A side \in Sides :
          /\ WF_vars(j \in Jobs /\ ProducerMkfifo(j, side))
          /\ WF_vars(j \in Jobs /\ ProducerStream(j, side))

Spec == Init /\ [][Next]_vars

SpecTwice == InitTwice /\ [][Next]_vars

SpecJob == InitJob /\ [][Next]_vars

\* one job on a rescaled asset or on an asset that needs no workfile, with
\* a result store that is empty before the run
InitFair ==
    \E a \in {Scaled1, Plain2}, fifo, del, stale \in BOOLEAN,
       missing \in SUBSET {SrcPath("ref1"), SrcPath("dis1")} :
        InitWith(<<a>>, "run_executors_in_parallel", FALSE, fifo, del, TRUE,
                 {}, "VMAF_V1", missing, stale, FALSE)

\* two runs of the job on one asset, one after the other, by the base
\* class or by a class that overrides _post_process_result
InitShaped ==
    \E a \in Catalog, fifo, del, stale \in BOOLEAN,
       eid \in {"VMAF_V1", ShapedId}, missing \in {{}, {SrcPath("dis1")}} :
      \E st \in InitialStores(<<a, a>>, eid) :
        InitWith(<<a, a>>, "run_executors_in_parallel", FALSE, fifo, del,
                 TRUE, st, eid, missing, stale, FALSE)

SpecShaped == InitShaped /\ [][Next]_vars

SpecFair == InitFair /\ [][Next]_vars /\ Fairness

\* ------------------------------------------------------------- properties
\* positions between lock.acquire() and lock.release()
Running ==
    {"construct", "load", "assert_paths", "set_use_path", "remove_workfiles",
     "make_dirs", "open_workfiles", "wait", "waited", "prepare_log",
     "generate", "generating", "close_workfiles", "read_result",
     "save_result", "remove_log", "rmdir", "post_process", "release"}

\* positions of a job whose load returned a Result
HitPath ==
    {"queued", "acquire", "construct", "load", "post_process", "release",
     "returned"}

\* positions up to and including the path assertion
UpToValidation ==
    {"queued", "acquire", "construct", "load", "assert_paths", "error"}

SameAsset(i, k) == Str(assets[i]) = Str(assets[k])

\* the result store had no Result for job j before the run
MissAtStart(j) ==
    LoadedResult(result_store, initial.store, assets[j], executor_id) = None

SourcesOf(j) == {assets[j].ref_path, assets[j].dis_path}

WorkfilesOf(j) ==
    {ref_workfile_path(assets[j]), dis_workfile_path(assets[j])}

SourcesIntact(j) ==
    \A p \in SourcesOf(j) :
        Exists(initial.fs, p) => Exists(fs, p) /\ fs[p] = initial.fs[p]

Materializations(j) ==
    {o \in ops[j] : o[1] \in {"start", "mkfifo", "transcode"}}

\* the asset needs no rescaling, cropping or padding
PlainAsset(a) ==
    /\ a.ref_width_height = a.quality_width_height
    /\ a.dis_width_height = a.quality_width_height
    /\ a.crop_cmd = "None" /\ a.pad_cmd = "None"

RECURSIVE GenerateCallsOf(_, _)
GenerateCallsOf(s, n) ==
    IF n = 0 THEN 0
    ELSE (IF Str(assets[n]) = s THEN generate_calls[n] ELSE 0)
         + GenerateCallsOf(s, n - 1)

\* C1: with a result store that holds no Result for the asset, two
\* successive runs of the job on that asset call _generate_result once in
\* total: the first run generates, reads and saves the Result, the second
\* run gets it from the result store and does nothing else.
C1_SecondRunLoadsResult ==
    (result_store /\ MissAtStart(1)) =>
        /\ generate_calls[1] + generate_calls[2] <= 1
        /\ (pc[1] = "returned" /\ pc[2] = "returned") =>
              /\ generate_calls[1] = 1 /\ generate_calls[2] = 0
              /\ read_calls[1] = 1 /\ read_calls[2] = 0
              /\ <<"save", LogFilePath(assets[1], executor_id)>> \in ops[1]
              /\ ops[2] = {}
              /\ result[2] = Load(store, assets[2], executor_id)
              /\ result[2] = result[1]

C1_Witness ==
    /\ result_store /\ MissAtStart(1)
    /\ pc[1] = "returned" /\ pc[2] = "returned"
    /\ generate_calls[1] = 1
    /\ result[2] # None

\* C2: a job whose load returns a Result goes straight to its end: no path
\* assertion, use_path_as_workpath not set, no workfile or log file or
\* directory created, written or removed, no _generate_result, no
\* _read_result, no save; file system and result store are as before.
C2_HitChangesNothing ==
    \A j \in Jobs :
        (result_store /\ ~MissAtStart(j)) =>
            /\ pc[j] \in HitPath
            /\ ops[j] = {}
            /\ generate_calls[j] = 0 /\ read_calls[j] = 0
            /\ use_path_as_workpath[j] = FALSE
            /\ procs[j] = [ref |-> "none", dis |-> "none"]
            /\ fs = initial.fs /\ dirs = initial.dirs
            /\ store = initial.store
            /\ (pc[j] \in {"post_process", "release", "returned"} =>
                    result[j] = Load(initial.store, assets[j], executor_id))

C2_Witness ==
    /\ result_store /\ ~MissAtStart(1)
    /\ pc[1] = "returned"
    /\ ~PlainAsset(assets[1])
    /\ Exists(fs, ref_workfile_path(assets[1]))
    /\ ~Exists(fs, assets[1].ref_path)

\* C3: two jobs whose assets have the same string are never both between
\* lock acquire and lock release.
C3_OneJobPerAssetString ==
    \A i, k \in Jobs :
        (i # k /\ SameAsset(i, k)) => ~(pc[i] \in Running /\ pc[k] \in Running)

C3_Witness ==
    /\ parallelize
    /\ \E i, k \in Jobs :
          /\ i # k /\ SameAsset(i, k)
          /\ pc[i] = "generating" /\ pc[k] = "acquire"

\* C4: two assets of the list have the same lock exactly when their strings
\* are equal, and a job waiting for its lock waits for a job whose asset has
\* the same string.
C4_LockPerAssetString ==
    (UsesLocks /\ batch_pc \in {"running", "done", "error"}) =>
        /\ \A i, k \in Jobs : (locks[i] = locks[k]) <=> SameAsset(i, k)
        /\ \A i \in Jobs :
              (pc[i] = "acquire" /\ held[locks[i]] # 0) =>
                  SameAsset(i, held[locks[i]])

C4_Witness ==
    /\ UsesLocks
    /\ \E i, k \in Jobs :
          /\ i # k /\ SameAsset(i, k)
          /\ assets[i].workdir # assets[k].workdir
          /\ pc[i] = "acquire" /\ held[locks[i]] = k

\* C5: in a batch with a result store that is empty before the run,
\* _generate_result is called at most once for every asset string, and of
\* two returned jobs with the same asset string one did nothing but load
\* the Result.
C5_GenerateOncePerAssetString ==
    (result_store /\ initial.store = {}) =>
        /\ \A i \in Jobs :
              /\ GenerateCallsOf(Str(assets[i]), Len(assets)) <= 1
              /\ pc[i] = "returned" =>
                    GenerateCallsOf(Str(assets[i]), Len(assets)) = 1
        /\ \A i, k \in Jobs :
              (/\ i # k /\ SameAsset(i, k)
               /\ pc[i] = "returned" /\ pc[k] = "returned") =>
                  \/ generate_calls[i] = 0 /\ ops[i] = {}
                  \/ generate_calls[k] = 0 /\ ops[k] = {}

C5_Witness ==
    /\ result_store /\ initial.store = {}
    /\ parallelize
    /\ \E i, k \in Jobs :
          /\ i < k /\ SameAsset(i, k)
          /\ pc[i] = "returned" /\ pc[k] = "returned"
          /\ generate_calls[k] = 1 /\ generate_calls[i] = 0

\* C6: no step of the job removes a source path of its asset, and every
\* source that was there before the run is there, unchanged, in every state
\* of the job, whether the job returns or ends in an exception.
C6_SourcesNeverRemoved ==
    \A j \in Jobs :
        (/\ assets[j].ref_path # ref_workfile_path(assets[j])
         /\ assets[j].dis_path # dis_workfile_path(assets[j])) =>
            /\ \A p \in SourcesOf(j) :
                  /\ <<"remove", p>> \notin ops[j]
                  /\ <<"rmdir", p>> \notin ops[j]
            /\ SourcesIntact(j)

C6_Witness ==
    /\ delete_workdir
    /\ pc[1] = "returned"
    /\ {<<"remove", p>> : p \in WorkfilesOf(1)} \subseteq ops[1]
    /\ <<"remove", LogFilePath(assets[1], executor_id)>> \in ops[1]
    /\ Exists(initial.fs, ref_workfile_path(assets[1]))
    /\ \A p \in SourcesOf(1) : Exists(fs, p)

\* C7: a job that has to run on an asset whose quality, reference and
\* distorted dimensions agree and that has no crop_cmd and no pad_cmd starts
\* no producer, makes no pipe, transcodes nothing and removes no workfile,
\* in fifo mode or not, with delete_workdir or not; the sources that were
\* there before the run are still there when the job has returned.
C7_NoWorkfileWithoutRescaling ==
    \A j \in Jobs :
        (PlainAsset(assets[j]) /\ MissAtStart(j)) =>
            /\ Materializations(j) = {}
            /\ procs[j] = [ref |-> "none", dis |-> "none"]
            /\ \A p \in WorkfilesOf(j) :
                  /\ <<"remove", p>> \notin ops[j]
                  /\ Exists(fs, p) <=> Exists(initial.fs, p)
            /\ pc[j] = "returned" => use_path_as_workpath[j] /\ SourcesIntact(j)

C7_Witness ==
    /\ PlainAsset(assets[1]) /\ MissAtStart(1)
    /\ fifo_mode /\ delete_workdir
    /\ pc[1] = "returned"
    /\ generate_calls[1] = 1
    /\ Exists(fs, ref_workfile_path(assets[1]))
    /\ \A p \in SourcesOf(1) : Exists(fs, p)

\* C8: the result list of a batch is as long as the asset list and its i-th
\* element is the Result the job of the i-th asset returned, a Result of
\* that asset, in whatever order the jobs returned.
C8_ResultsInAssetOrder ==
    batch_pc = "done" =>
        /\ Len(results) = Len(assets)
        /\ \A i \in Jobs :
              /\ results[i] = result[i]
              /\ results[i].asset = Str(assets[i])

C8_Witness ==
    /\ batch_pc = "done"
    /\ parallelize
    /\ entry = "run_executors_in_parallel"
    /\ Len(completion) = Len(assets)
    /\ completion[1] # 1
    /\ \E i, k \in Jobs : results[i] # results[k]

\* crop_cmd or pad_cmd given without quality_width and quality_height
Misconfigured(a) ==
    /\ a.crop_cmd # "None" \/ a.pad_cmd # "None"
    /\ ~(QualityKeys \subseteq a.asset_dict)

C10_MissingSourceStopsJob ==
    \A j \in Jobs :
        (MissAtStart(j) /\ \E p \in SourcesOf(j) : ~Exists(initial.fs, p)) =>
            /\ pc[j] \in UpToValidation
            /\ generate_calls[j] = 0
            /\ ops[j] \subseteq {<<"assert_paths", assets[j].ref_path>>}

\* positions of a job after _generate_result returned
AfterGenerate ==
    {"close_workfiles", "read_result", "save_result", "remove_log", "rmdir",
     "post_process", "release", "returned"}

\* positions of a job after _read_result returned
AfterRead ==
    {"save_result", "remove_log", "rmdir", "post_process", "release",
     "returned"}

\* C11: a job that has to run calls _generate_result at most once and
\* _read_result at most once, _read_result only after _generate_result
\* returned; a job that returned has called each exactly once; and when
\* _generate_result is called the log file holds the type_version line and
\* a blank line and nothing else, whatever the path held before the job.
C11_GenerateOnceOnFreshLog ==
    \A j \in Jobs :
        MissAtStart(j) =>
            /\ generate_calls[j] <= 1 /\ read_calls[j] <= 1
            /\ read_calls[j] <= generate_calls[j]
            /\ (pc[j] \in AfterGenerate => generate_calls[j] = 1)
            /\ (pc[j] \in AfterRead => read_calls[j] = 1)
            /\ (read_calls[j] = 1 => pc[j] \in AfterRead \cup {"error"})
            /\ (pc[j] = "returned" =>
                    generate_calls[j] = 1 /\ read_calls[j] = 1)
            /\ (pc[j] = "generate" =>
                    LET log == LogFilePath(assets[j], executor_id)
                    IN /\ Exists(fs, log)
                       /\ fs[log].kind = "file"
                       /\ fs[log].data = <<executor_id, "">>)

C11_Witness ==
    /\ MissAtStart(1)
    /\ Exists(initial.fs, LogFilePath(assets[1], executor_id))
    /\ initial.fs[LogFilePath(assets[1], executor_id)].data = <<"stale">>
    /\ pc[1] = "returned"
    /\ generate_calls[1] = 1 /\ read_calls[1] = 1

\* positions of a job before _set_asset_use_path_as_workpath returned
BeforeDecision ==
    {"queued", "acquire", "construct", "load", "assert_paths", "set_use_path"}

\* the job passed _set_asset_use_path_as_workpath
Decided(j) ==
    \/ pc[j] \notin BeforeDecision \cup {"error"}
    \/ pc[j] = "error" /\ error[j] \in {"RuntimeError", "GenerateError",
                                          "IOError"}

\* C12: once a job that has to run has passed
\* _set_asset_use_path_as_workpath, asset.use_path_as_workpath is TRUE
\* exactly when the quality dimensions equal the reference dimensions and
\* the distorted dimensions and neither crop_cmd nor pad_cmd is given, for
\* every combination of the three dimensions, crop_cmd and pad_cmd; it is
\* FALSE as soon as one of the four conditions fails.
C12_UsePathAsWorkpathPolicy ==
    \A j \in Jobs :
        (MissAtStart(j) /\ Decided(j)) =>
            LET a == assets[j]
            IN /\ use_path_as_workpath[j] =
                     (/\ a.quality_width_height = a.ref_width_height
                      /\ a.quality_width_height = a.dis_width_height
                      /\ a.crop_cmd = "None"
                      /\ a.pad_cmd = "None")
               /\ (a.quality_width_height # a.ref_width_height =>
                      use_path_as_workpath[j] = FALSE)
               /\ (a.quality_width_height # a.dis_width_height =>
                      use_path_as_workpath[j] = FALSE)
               /\ (a.crop_cmd # "None" => use_path_as_workpath[j] = FALSE)
               /\ (a.pad_cmd # "None" => use_path_as_workpath[j] = FALSE)

C12_Witness ==
    /\ MissAtStart(1)
    /\ pc[1] = "returned"
    /\ assets[1].quality_width_height = assets[1].ref_width_height
    /\ assets[1].quality_width_height = assets[1].dis_width_height
    /\ assets[1].crop_cmd = "None"
    /\ assets[1].pad_cmd = "pad"
    /\ use_path_as_workpath[1] = FALSE
    /\ <<"transcode", ref_workfile_path(assets[1])>> \in ops[1]

BothWorkfilesExist(j) == \A p \in WorkfilesOf(j) : Exists(fs, p)

\* what holds in every state of the wait of job j
WaitState(j) ==
    /\ attempts[j] <= WaitAttempts
    /\ (pc[j] = "wait" =>
            /\ attempts[j] < WaitAttempts
            /\ fifo_mode /\ ~use_path_as_workpath[j]
            /\ generate_calls[j] = 0)
    /\ (pc[j] = "waited" => attempts[j] >= 1 /\ BothWorkfilesExist(j))
    /\ (error[j] = "RuntimeError" =>
            /\ pc[j] = "error"
            /\ attempts[j] = WaitAttempts
            /\ generate_calls[j] = 0
            /\ <<"write_log", LogFilePath(assets[j], executor_id)>>
                   \notin ops[j])

\* what holds of every step of job j into and out of the wait
WaitStep(j) ==
    /\ (pc[j] = "wait" /\ pc'[j] # pc[j]) =>
            /\ attempts'[j] = attempts[j] + 1
            /\ \/ pc'[j] = "waited" /\ BothWorkfilesExist(j)
               \/ /\ pc'[j] = "error" /\ error'[j] = "RuntimeError"
                  /\ attempts'[j] = WaitAttempts
                  /\ ~BothWorkfilesExist(j)
    /\ (pc[j] = "wait" /\ pc'[j] = pc[j] /\ attempts'[j] # attempts[j]) =>
            /\ attempts'[j] = attempts[j] + 1
            /\ ~BothWorkfilesExist(j)
    /\ (ReadsPipes(j) /\ pc'[j] = "generate" /\ pc[j] # "generate") =>
            pc[j] = "waited" /\ BothWorkfilesExist(j)

\* C13: in fifo mode with a workfile to open, _wait_for_workfiles makes at
\* most 10 existence checks of the two workfile paths; the job goes on to
\* _prepare_log_file and _generate_result only from a check that found both
\* paths; when the tenth check does not find both, the job ends in the
\* RuntimeError and never calls _generate_result; and a job in the wait
\* leaves it.
C13_WaitBoundedAndDecisive ==
    /\ [](\A j \in Jobs : WaitState(j))
    /\ [][\A j \in Jobs : WaitStep(j)]_vars
    /\ \A j \in 1..NumAssets :
          (j \in Jobs /\ pc[j] = "wait") ~> (j \in Jobs /\ pc[j] # "wait")

C13_Witness ==
    /\ pc[1] = "waited"
    /\ attempts[1] = WaitAttempts
    /\ fifo_mode /\ ~use_path_as_workpath[1]
    /\ BothWorkfilesExist(1)

SourcesExist(j) == \A p \in SourcesOf(j) : Exists(fs, p)

\* what holds of ref_p and dis_p in every state of job j
ProducersState(j) ==
    /\ (/\ fifo_mode /\ ~use_path_as_workpath[j]
         /\ \/ pc[j] \in {"wait", "waited", "generate", "generating"}
            \/ pc[j] \in AfterGenerate /\ MissAtStart(j)
            \/ attempts[j] >= 1 \/ generate_calls[j] >= 1) =>
            procs[j].ref # "none" /\ procs[j].dis # "none"
    /\ \A side \in Sides :
          /\ procs[j][side] = "started" => ENABLED ProducerMkfifo(j, side)
          /\ (/\ procs[j][side] = "blocked" /\ pc[j] = "generating"
               /\ procs[j][OtherSide(side)] # "failed") =>
                  ENABLED ProducerStream(j, side)

TearsDown(j) == delete_workdir /\ ~use_path_as_workpath[j]

\* what holds in every state of a job that has to run, about the clean-up
TeardownState(j) ==
    /\ (pc[j] = "close_workfiles" =>
            generate_calls[j] = 1 /\ read_calls[j] = 0)
    /\ (pc[j] = "read_result" => read_calls[j] = 0)
    /\ (TearsDown(j) /\ pc[j] \in AfterGenerate \ {"close_workfiles"}) =>
            \A p \in WorkfilesOf(j) : ~Exists(fs, p)

\* what holds of the clean-up step of job j and, without delete_workdir, of
\* every step after _generate_result
TeardownStep(j) ==
    /\ (pc[j] = "close_workfiles" /\ pc'[j] # pc[j]) =>
            /\ pc'[j] = "read_result"
            /\ dirs' = dirs /\ store' = store
            /\ DOMAIN fs' =
                  IF TearsDown(j) THEN DOMAIN fs \ WorkfilesOf(j)
                  ELSE DOMAIN fs
            /\ \A p \in DOMAIN fs' : fs'[p] = fs[p]
    /\ (~delete_workdir /\ pc[j] \in AfterGenerate) =>
            \A p \in WorkfilesOf(j) : Exists(fs, p) => Exists(fs', p)

\* C15: with delete_workdir and a workfile in use, the clean-up of the
\* workfiles comes after _generate_result returned and before _read_result;
\* it removes the two workfile paths and nothing else, it goes on to
\* _read_result also when one or both paths are not there, and from then on
\* to the return of the job neither workfile path exists.  Without
\* delete_workdir no step after _generate_result removes a workfile.
C15_WorkfilesRemovedAfterGenerate ==
    /\ [](\A j \in Jobs : MissAtStart(j) => TeardownState(j))
    /\ [][\A j \in Jobs : MissAtStart(j) => TeardownStep(j)]_vars

C15_Witness ==
    /\ MissAtStart(1) /\ TearsDown(1) /\ ~fifo_mode
    /\ pc[1] = "returned"
    /\ ~Exists(initial.fs, assets[1].dis_path)
    /\ {<<"transcode", p>> : p \in WorkfilesOf(1)} \subseteq ops[1]
    /\ <<"remove", ref_workfile_path(assets[1])>> \in ops[1]
    /\ <<"remove", dis_workfile_path(assets[1])>> \notin ops[1]
    /\ \A p \in WorkfilesOf(1) : ~Exists(fs, p)

\* C16 as claimed: after the log file is removed, os.rmdir of its directory
\* is tried; when it fails because the directory is not empty the job goes
\* on and returns its Result; when it fails for another reason the
\* exception ends the job.
C16_OtherRmdirErrorEndsJob ==
    [][\A j \in Jobs :
          (pc[j] = "rmdir" /\ pc'[j] # pc[j]) =>
              LET e == RmdirErrno(fs, dirs, LogDir(assets[j]))
              IN IF e \in {0, ENOTEMPTY}
                 THEN pc'[j] = "post_process" /\ result'[j] = result[j]
                 ELSE pc'[j] = "error"]_vars

\* the exceptions of a job that come from its asset
AssetErrors == {"AssertionError", "RuntimeError"}

\* C17 as claimed: when a batch has ended, in the pool or sequentially, and
\* a job ended in an exception that comes from its asset, every job on an
\* asset with another string has run to its own end.
C17_ErrorEndsOnlyItsJob ==
    \A j, k \in Jobs :
        (/\ batch_pc \in {"done", "error"}
         /\ pc[j] = "error" /\ error[j] \in AssetErrors
         /\ ~SameAsset(j, k)) =>
            pc[k] \in {"returned", "error"}

\* C18 as claimed: a job that has ended, by returning or in an exception,
\* does not hold its lock.
C18_LockReleasedOnEveryEnd ==
    \A j \in Jobs :
        (UsesLocks /\ locks # <<>> /\ pc[j] \in {"returned", "error"}) =>
            held[locks[j]] # j

\* the step is one in which job j creates a workfile: the two ffmpeg runs
\* without fifo mode, or os.mkfifo of ref_p or dis_p
CreatesWorkfile(j) ==
    \/ /\ pc[j] = "open_workfiles" /\ pc'[j] # pc[j]
       /\ ~use_path_as_workpath[j] /\ ~fifo_mode
    \/ \E side \in Sides :
          procs[j][side] = "started" /\ procs'[j][side] # "started"

\* the step is one in which job j writes the head of its log file
WritesLogHeader(j) ==
    pc[j] \in {"prepare_log", "waited"} /\ pc'[j] = "generate"

\* C19 as claimed: whenever a job creates a workfile, the directory it made
\* sure of before is there, and whenever it has written the head of its
\* log file the directory is there, whatever the other jobs do.
C19_WorkdirKeptWhileInUse ==
    [][\A j \in Jobs :
          /\ CreatesWorkfile(j) => LogDir(assets[j]) \in dirs
          /\ WritesLogHeader(j) => LogDir(assets[j]) \in dirs']_vars

\* the workfile paths job j created that exist
WorkfilesLeft(j) ==
    {p \in WorkfilesOf(j) :
        /\ Exists(fs, p)
        /\ <<"mkfifo", p>> \in ops[j] \/ <<"transcode", p>> \in ops[j]}

\* C20 as claimed: with delete_workdir and a workfile in use, a job that
\* has ended, by returning or in an exception, has left none of the
\* workfile paths it created, and neither ref_p nor dis_p is still running.
C20_NothingLeftWhenJobEnds ==
    \A j \in Jobs :
        (/\ MissAtStart(j) /\ delete_workdir /\ ~use_path_as_workpath[j]
         /\ pc[j] \in {"returned", "error"}) =>
            /\ WorkfilesLeft(j) = {}
            /\ \A side \in Sides : procs[j][side] \notin {"started", "blocked"}

\* what the result store holds for the asset of job j
SavedFor(j) == Load(store, assets[j], executor_id)

\* C21: with a result store, the Result a job returns is the hook
\* _post_process_result applied once to what the result store holds for
\* its asset and executor, on a hit as on a miss; what is saved is the
\* Result as _read_result parsed it, before the hook; so the job that gets
\* the Result from the result store returns the same Result as the job
\* that generated and saved it.
C21_HitReturnsWhatMissReturned ==
    \A j \in Jobs :
        (result_store /\ pc[j] = "returned") =>
            /\ SavedFor(j) # None
            /\ SavedFor(j).scores = <<executor_id, "", "scores">>
            /\ result[j].asset = SavedFor(j).asset
            /\ result[j].executor_id = SavedFor(j).executor_id
            /\ result[j].scores =
                  IF executor_id = ShapedId
                  THEN SavedFor(j).scores \o <<"shaped">>
                  ELSE SavedFor(j).scores
            /\ \A k \in Jobs :
                  (pc[k] = "returned" /\ SameAsset(j, k)) =>
                      result[k] = result[j]

C21_Witness ==
    /\ result_store /\ executor_id = ShapedId
    /\ MissAtStart(1)
    /\ pc[1] = "returned" /\ pc[2] = "returned"
    /\ generate_calls[1] = 1 /\ read_calls[1] = 1
    /\ generate_calls[2] = 0 /\ read_calls[2] = 0 /\ ops[2] = {}
    /\ result[2] = result[1]
    /\ result[2] # SavedFor(2)

====
